---------------------------- MODULE Spec2Model ----------------------------
(***************************************************************************)
(* Reconstruction pipeline of Deployment_Spectrum_ML:                      *)
(*   src/src/model.py                 reconstruct_latest and its helpers   *)
(*   src/src/models/model_loader.py   ModelLoader.load / ModelLoader.predict*)
(*                                                                         *)
(* Numbers are exact rationals over arbitrary-size naturals, so that the   *)
(* 1e-6 of the standardisation and of the background substitute keeps its  *)
(* value.  Text is a sequence of one-character strings, a file a sequence  *)
(* of lines.                                                               *)
(***************************************************************************)
EXTENDS Integers, Sequences, FiniteSets, TLC

(***************************************************************************)
(* Arithmetic.  A natural is a little-endian sequence of limbs below       *)
(* 10000 without leading zero limbs (<<>> is 0); an integer is             *)
(* [neg, mag]; a rational is [num, den] with den > 0.                      *)
(***************************************************************************)
Limb == 10 * 1000

RECURSIVE BTrim(_)
BTrim(a) ==
    IF a = <<>> THEN <<>>
    ELSE IF a[Len(a)] = 0 THEN BTrim(SubSeq(a, 1, Len(a) - 1))
    ELSE a

RECURSIVE BNat(_)
BNat(n) == IF n = 0 THEN <<>> ELSE <<n % Limb>> \o BNat(n \div Limb)

RECURSIVE BAddC(_, _, _)
BAddC(a, b, c) ==
    IF a = <<>> /\ b = <<>>
    THEN IF c = 0 THEN <<>> ELSE <<c>>
    ELSE LET x == IF a = <<>> THEN 0 ELSE Head(a)
             y == IF b = <<>> THEN 0 ELSE Head(b)
             s == x + y + c
         IN  <<s % Limb>> \o BAddC(IF a = <<>> THEN <<>> ELSE Tail(a),
                                   IF b = <<>> THEN <<>> ELSE Tail(b),
                                   s \div Limb)

BAdd(a, b) == BAddC(a, b, 0)

\* a - b for a >= b, limb by limb with borrow
RECURSIVE BSubC(_, _, _)
BSubC(a, b, c) ==
    IF a = <<>> THEN <<>>
    ELSE LET y == IF b = <<>> THEN 0 ELSE Head(b)
             s == Head(a) - y - c
         IN  <<IF s < 0 THEN s + Limb ELSE s>>
                 \o BSubC(Tail(a), IF b = <<>> THEN <<>> ELSE Tail(b),
                          IF s < 0 THEN 1 ELSE 0)

BSub(a, b) == BTrim(BSubC(a, b, 0))

\* -1, 0, 1 as a < b, a = b, a > b
RECURSIVE BCmp(_, _)
BCmp(a, b) ==
    IF Len(a) # Len(b) THEN (IF Len(a) < Len(b) THEN -1 ELSE 1)
    ELSE IF a = <<>> THEN 0
    ELSE IF a[Len(a)] # b[Len(b)] THEN (IF a[Len(a)] < b[Len(b)] THEN -1 ELSE 1)
    ELSE BCmp(SubSeq(a, 1, Len(a) - 1), SubSeq(b, 1, Len(b) - 1))

RECURSIVE BMulLimb(_, _, _)
BMulLimb(a, d, c) ==
    IF a = <<>> THEN (IF c = 0 THEN <<>> ELSE <<c>>)
    ELSE LET p == Head(a) * d + c
         IN  <<p % Limb>> \o BMulLimb(Tail(a), d, p \div Limb)

RECURSIVE BMul(_, _)
BMul(a, b) ==
    IF a = <<>> \/ b = <<>> THEN <<>>
    ELSE BTrim(BAdd(BMulLimb(a, Head(b), 0), <<0>> \o BMul(a, Tail(b))))

ZInt(n) == [neg |-> n < 0, mag |-> BNat(IF n < 0 THEN 0 - n ELSE n)]
ZNeg(x) == IF x.mag = <<>> THEN x ELSE [neg |-> ~x.neg, mag |-> x.mag]
ZAdd(x, y) ==
    IF x.neg = y.neg THEN [neg |-> x.neg, mag |-> BAdd(x.mag, y.mag)]
    ELSE LET c == BCmp(x.mag, y.mag)
         IN  IF c = 0 THEN [neg |-> FALSE, mag |-> <<>>]
             ELSE IF c > 0 THEN [neg |-> x.neg, mag |-> BSub(x.mag, y.mag)]
             ELSE [neg |-> y.neg, mag |-> BSub(y.mag, x.mag)]
ZMul(x, y) ==
    LET m == BMul(x.mag, y.mag)
    IN  [neg |-> (m # <<>>) /\ (x.neg # y.neg), mag |-> m]

\* n / d for machine integers n and d > 0
Q(n, d) == [num |-> ZInt(n), den |-> BNat(d)]
QZero == Q(0, 1)
QIsZero(p) == p.num.mag = <<>>
QEq(p, q) ==
    ZMul(p.num, [neg |-> FALSE, mag |-> q.den])
        = ZMul(q.num, [neg |-> FALSE, mag |-> p.den])
QAdd(p, q) ==
    [num |-> ZAdd(ZMul(p.num, [neg |-> FALSE, mag |-> q.den]),
                  ZMul(q.num, [neg |-> FALSE, mag |-> p.den])),
     den |-> BMul(p.den, q.den)]
QSub(p, q) == QAdd(p, [num |-> ZNeg(q.num), den |-> q.den])
QMul(p, q) == [num |-> ZMul(p.num, q.num), den |-> BMul(p.den, q.den)]
\* p / q for q # 0
QDiv(p, q) ==
    [num |-> ZMul(p.num, [neg |-> q.num.neg, mag |-> q.den]),
     den |-> BMul(p.den, q.num.mag)]

\* the literal 1e-6 of model.py:206, model.py:229 and model_loader.py:91
EpsDen == 1000000
Eps == Q(1, EpsDen)


(***************************************************************************)
(* Text.  A string is a sequence of one-character strings.  The alphabet   *)
(* of the model has digits, signs, the decimal point, letters, and the     *)
(* separators and whitespace the parsers look at.                          *)
(***************************************************************************)
Digits == <<"0", "1", "2", "3", "4", "5", "6", "7", "8", "9">>
WhiteSpace == {" ", "\t", "\r", "\n"}

IsDigit(c) == \E i \in 1..10 : Digits[i] = c
DigitVal(c) == (CHOOSE i \in 1..10 : Digits[i] = c) - 1
AllDigits(s) == \A i \in 1..Len(s) : IsDigit(s[i])

RECURSIVE DecVal(_)
DecVal(s) ==
    IF s = <<>> THEN 0
    ELSE DecVal(SubSeq(s, 1, Len(s) - 1)) * 10 + DigitVal(s[Len(s)])

RECURSIVE Pow10(_)
Pow10(k) == IF k = 0 THEN 1 ELSE 10 * Pow10(k - 1)

\* str.strip()
RECURSIVE LStrip(_)
LStrip(s) == IF s # <<>> /\ Head(s) \in WhiteSpace THEN LStrip(Tail(s)) ELSE s
RECURSIVE RStrip(_)
RStrip(s) ==
    IF s # <<>> /\ s[Len(s)] \in WhiteSpace
    THEN RStrip(SubSeq(s, 1, Len(s) - 1)) ELSE s
Strip(s) == RStrip(LStrip(s))

\* str.replace(old, new) for one-character old and new
Replace(s, old, new) == [i \in 1..Len(s) |-> IF s[i] = old THEN new ELSE s[i]]

\* str.split(sep): the pieces between the separators, empty ones included
RECURSIVE SplitFrom(_, _, _)
SplitFrom(s, sep, cur) ==
    IF s = <<>> THEN <<cur>>
    ELSE IF Head(s) = sep THEN <<cur>> \o SplitFrom(Tail(s), sep, <<>>)
    ELSE SplitFrom(Tail(s), sep, Append(cur, Head(s)))
Split(s, sep) == SplitFrom(s, sep, <<>>)

RECURSIVE StripNonEmpty(_)
StripNonEmpty(ps) ==
    IF ps = <<>> THEN <<>>
    ELSE LET t == Strip(Head(ps))
         IN  (IF t = <<>> THEN <<>> ELSE <<t>>) \o StripNonEmpty(Tail(ps))

\* [s.strip() for s in line.replace("\t", ",").replace(" ", ",").split(",") if s.strip()]
Tokens(line) == StripNonEmpty(Split(Replace(Replace(line, "\t", ","), " ", ","), ","))

Unsigned(tok) == IF tok # <<>> /\ Head(tok) \in {"+", "-"} THEN Tail(tok) ELSE tok
IsNegative(tok) == tok # <<>> /\ Head(tok) = "-"

\* int(tok): an optional sign and one or more digits; anything else raises
ParseInt(tok) ==
    LET u == Unsigned(Strip(tok))
    IN  IF u # <<>> /\ AllDigits(u)
        THEN [ok |-> TRUE, val |-> IF IsNegative(Strip(tok)) THEN 0 - DecVal(u) ELSE DecVal(u)]
        ELSE [ok |-> FALSE, val |-> 0]

\* float(tok): an optional sign, digits with at most one decimal point and at
\* least one digit; anything else raises (the alphabet has no exponent)
ParseFloat(tok) ==
    LET u  == Unsigned(Strip(tok))
        ps == Split(u, ".")
        ip == ps[1]
        fp == IF Len(ps) = 2 THEN ps[2] ELSE <<>>
        n  == DecVal(ip) * Pow10(Len(fp)) + DecVal(fp)
    IN  IF Len(ps) <= 2 /\ AllDigits(ip) /\ AllDigits(fp) /\ Len(ip) + Len(fp) > 0
        THEN [ok |-> TRUE,
              val |-> Q(IF IsNegative(Strip(tok)) THEN 0 - n ELSE n, Pow10(Len(fp)))]
        ELSE [ok |-> FALSE, val |-> QZero]

(***************************************************************************)
(* ROI catalog: model.py _parse_roi_line, _load_rois.  None is <<>>.       *)
(***************************************************************************)
None == <<>>

ParseRoiLine(line) ==
    LET parts == Tokens(line)
    IN  IF Len(parts) < 4 THEN None
        ELSE LET v == [i \in 1..4 |-> ParseInt(parts[i])]
             IN  IF \A i \in 1..4 : v[i].ok
                 THEN <<v[1].val, v[2].val, v[3].val, v[4].val>>
                 ELSE None

\* a limit is [none |-> TRUE] (limit=None) or [none |-> FALSE, val |-> n];
\* Python's truth value of it
LimitNone == [none |-> TRUE, val |-> 0]
LimitOf(n) == [none |-> FALSE, val |-> n]
LimitTruthy(limit) == ~limit.none /\ limit.val # 0

\* the loop of _load_rois over the remaining lines
RECURSIVE LoadRoisFrom(_, _, _)
LoadRoisFrom(lines, limit, rois) ==
    IF lines = <<>> THEN rois
    ELSE LET line == Strip(Head(lines))
         IN  IF line = <<>> THEN LoadRoisFrom(Tail(lines), limit, rois)
             ELSE LET r    == ParseRoiLine(line)
                      next == IF r # None THEN Append(rois, r) ELSE rois
                  IN  IF LimitTruthy(limit) /\ Len(next) >= limit.val
                      THEN next
                      ELSE LoadRoisFrom(Tail(lines), limit, next)

LoadRois(lines, limit) == LoadRoisFrom(lines, limit, <<>>)

(***************************************************************************)
(* Files.  A text file is [exists, lines]; an array file (.npy) is         *)
(* [exists, ok, data] with data a one-dimensional array of rationals and   *)
(* ok = FALSE a file np.load cannot decode; the weight file is             *)
(* [exists, ok, fc, in]: ok = FALSE a blob torch.load cannot decode, fc    *)
(* the row count of its 'fc.weight' tensor (0: the key is absent) and in   *)
(* the input dimension of the network its tensors were saved from.         *)
(***************************************************************************)
NoTextFile == [exists |-> FALSE, lines |-> <<>>]
TextFile(ls) == [exists |-> TRUE, lines |-> ls]
NoArrayFile == [exists |-> FALSE, ok |-> FALSE, data |-> <<>>]
BadArrayFile == [exists |-> TRUE, ok |-> FALSE, data |-> <<>>]
ArrayFile(d) == [exists |-> TRUE, ok |-> TRUE, data |-> d]
NoBlob == [exists |-> FALSE, ok |-> FALSE, fc |-> 0, in |-> 0]
BadBlob == [exists |-> TRUE, ok |-> FALSE, fc |-> 0, in |-> 0]
Blob(fc, in) == [exists |-> TRUE, ok |-> TRUE, fc |-> fc, in |-> in]

\* an exception is its class name; NoExc is "no exception raised"
NoExc == "None"

(***************************************************************************)
(* model.py:193-206  the background reference of bgrois.txt                *)
(***************************************************************************)
\* f.readline().strip(): the first line of the file, "" at end of file
ReadLine(file) == IF file.lines = <<>> THEN <<>> ELSE Strip(file.lines[1])

\* the reference used as read, zero included
BgSubstituteNone(v) == v

\* if bg_value == 0: bg_value = 1e-6
BgSubstitute(v) == IF QIsZero(v) THEN Eps ELSE v

\* [exc, value]: the exception raised, or the reference value
LoadBackground(file) ==
    IF ~file.exists THEN [exc |-> "FileNotFoundError", value |-> QZero]
    ELSE LET parts == Tokens(ReadLine(file))
         IN  IF Len(parts) < 5 THEN [exc |-> "RuntimeError", value |-> QZero]
             ELSE LET f == ParseFloat(parts[5])
                  IN  IF ~f.ok THEN [exc |-> "RuntimeError", value |-> QZero]
                      ELSE [exc |-> NoExc, value |-> BgSubstitute(f.val)]

(***************************************************************************)
(* model.py:208-213  the foreground regions of rois.txt                    *)
(***************************************************************************)
RequiredCount == 32

\* the count test off by one: exactly the required number is refused
LoadForegroundOffByOne(file) ==
    IF ~file.exists THEN [exc |-> "FileNotFoundError", rois |-> <<>>]
    ELSE LET fg == LoadRois(file.lines, LimitOf(RequiredCount))
         IN  IF Len(fg) <= RequiredCount
             THEN [exc |-> "RuntimeError", rois |-> <<>>]
             ELSE [exc |-> NoExc, rois |-> fg]

LoadForeground(file) ==
    IF ~file.exists THEN [exc |-> "FileNotFoundError", rois |-> <<>>]
    ELSE LET fg == LoadRois(file.lines, LimitOf(RequiredCount))
         IN  IF Len(fg) < RequiredCount
             THEN [exc |-> "RuntimeError", rois |-> <<>>]
             ELSE [exc |-> NoExc, rois |-> fg]

(***************************************************************************)
(* model.py:168-176, 215-216  feature extraction.  A gray image is a       *)
(* sequence of H rows of W pixels; img[r + 1][c + 1] is img_gray[r, c].    *)
(***************************************************************************)
Max(a, b) == IF a >= b THEN a ELSE b
Min(a, b) == IF a <= b THEN a ELSE b

RECURSIVE SumSeq(_)
SumSeq(s) == IF s = <<>> THEN 0 ELSE Head(s) + SumSeq(Tail(s))

\* the mean taken over the whole w x h region instead of its clipped part
ComputeRoiMeanGrayUnclipped(img, roi) ==
    LET H  == Len(img)
        W  == Len(img[1])
        x0 == Max(0, roi[1])
        y0 == Max(0, roi[2])
        x1 == Min(W, roi[1] + roi[3])
        y1 == Min(H, roi[2] + roi[4])
    IN  IF x1 <= x0 \/ y1 <= y0 THEN QZero
        ELSE Q(SumSeq([r \in 1..(y1 - y0) |->
                          SumSeq([c \in 1..(x1 - x0) |-> img[y0 + r][x0 + c]])]),
               roi[3] * roi[4])

ComputeRoiMeanGray(img, roi) ==
    LET H  == Len(img)
        W  == Len(img[1])
        x0 == Max(0, roi[1])
        y0 == Max(0, roi[2])
        x1 == Min(W, roi[1] + roi[3])
        y1 == Min(H, roi[2] + roi[4])
    IN  IF x1 <= x0 \/ y1 <= y0 THEN QZero
        ELSE Q(SumSeq([r \in 1..(y1 - y0) |->
                          SumSeq([c \in 1..(x1 - x0) |-> img[y0 + r][x0 + c]])]),
               (y1 - y0) * (x1 - x0))

\* features = [(v / bg_value) for v in roi_means]; a zero divisor raises
ExtractFeatures(img, rois, bg) ==
    IF QIsZero(bg) /\ rois # <<>>
    THEN [exc |-> "ZeroDivisionError", features |-> <<>>]
    ELSE [exc |-> NoExc,
          features |-> [i \in 1..Len(rois) |-> QDiv(ComputeRoiMeanGray(img, rois[i]), bg)]]

(***************************************************************************)
(* numpy element-wise arithmetic on one-dimensional arrays: the shapes     *)
(* broadcast when they are equal or one of them is 1.                      *)
(***************************************************************************)
Broadcasts(n, m) == n = m \/ n = 1 \/ m = 1
BroadcastLen(n, m) == IF n = 1 THEN m ELSE n
At(a, i) == IF Len(a) = 1 THEN a[1] ELSE a[i]

\* (x - mean) / (std + 1e-6), where the shapes broadcast
Standardize(v, mean, std) ==
    LET n == BroadcastLen(BroadcastLen(Len(v), Len(mean)), Len(std))
    IN  [i \in 1..n |-> QDiv(QSub(At(v, i), At(mean, i)), QAdd(At(std, i), Eps))]

StandardizeOk(v, mean, std) ==
    /\ Broadcasts(Len(v), Len(mean))
    /\ Broadcasts(BroadcastLen(Len(v), Len(mean)), Len(std))

(***************************************************************************)
(* model.py:218-229  loading the statistics and standardising              *)
(***************************************************************************)
StatsDim == 32

\* _load_numpy_array: (arr, None) or (None, message)
LoadNumpyArray(file) ==
    IF file.exists /\ file.ok THEN [err |-> FALSE, arr |-> file.data]
    ELSE [err |-> TRUE, arr |-> <<>>]

LoadStats(meanFile, stdFile) ==
    LET m == LoadNumpyArray(meanFile)
        s == LoadNumpyArray(stdFile)
    IN  IF m.err THEN [exc |-> "RuntimeError", mean |-> <<>>, std |-> <<>>]
        ELSE IF s.err THEN [exc |-> "RuntimeError", mean |-> <<>>, std |-> <<>>]
        ELSE IF Len(m.arr) # StatsDim \/ Len(s.arr) # StatsDim
        THEN [exc |-> "RuntimeError", mean |-> <<>>, std |-> <<>>]
        ELSE [exc |-> NoExc, mean |-> m.arr, std |-> s.arr]

(***************************************************************************)
(* model_loader.py  ModelLoader.  A loader is [model, mean_set,            *)
(* input_mean, std_set, input_std]; model.built = FALSE is                 *)
(* "self.model is None", and model.weights tells whether load_state_dict   *)
(* has filled the network ("loaded") or it still has the weights of its    *)
(* construction ("random").                                                *)
(***************************************************************************)
DefaultOutputDim == 255
WaveLo == 400
WaveHi == 1000

NoModel == [built |-> FALSE, input_dim |-> 0, output_dim |-> 0, weights |-> "none"]

\* ModelLoader.__init__
NewLoader ==
    [model |-> NoModel, mean_set |-> FALSE, input_mean |-> <<>>,
     std_set |-> FALSE, input_std |-> <<>>]

\* load_state_dict(state_dict) is strict: the blob must hold the tensors of
\* the network ResNet1D(input_dim, output_dim) builds
StateDictFits(blob, input_dim, output_dim) ==
    blob.fc = output_dim /\ blob.in = input_dim

\* self.model = ResNet1D(...); self.model.load_state_dict(state_dict)
BuildModel(ld, blob, input_dim, output_dim) ==
    LET net == [built |-> TRUE, input_dim |-> input_dim,
                output_dim |-> output_dim, weights |-> "random"]
    IN  IF StateDictFits(blob, input_dim, output_dim)
        THEN [exc |-> NoExc,
              loader |-> [ld EXCEPT !.model = [net EXCEPT !.weights = "loaded"]]]
        ELSE [exc |-> "ModelLoadError", loader |-> [ld EXCEPT !.model = net]]

\* load without its except clause: what is raised inside the try block
\* reaches the caller as it is
LoaderLoadUnwrapped(ld, meanFile, stdFile, blob) ==
    IF ~blob.exists THEN [exc |-> "ModelLoadError", loader |-> ld]
    ELSE IF ~(meanFile.exists /\ meanFile.ok)
    THEN [exc |-> IF meanFile.exists THEN "ValueError" ELSE "ModelLoadError",
          loader |-> ld]
    ELSE LET ld1 == [ld EXCEPT !.mean_set = TRUE, !.input_mean = meanFile.data]
         IN  IF ~(stdFile.exists /\ stdFile.ok)
             THEN [exc |-> IF stdFile.exists THEN "ValueError" ELSE "ModelLoadError",
                   loader |-> ld1]
             ELSE LET ld2 == [ld1 EXCEPT !.std_set = TRUE, !.input_std = stdFile.data]
                      r   == BuildModel(ld2, blob, Len(ld2.input_mean),
                                 IF blob.fc # 0 THEN blob.fc ELSE DefaultOutputDim)
                  IN  IF ~blob.ok
                      THEN [exc |-> "UnpicklingError", loader |-> ld2]
                      ELSE [exc |-> IF r.exc = NoExc THEN NoExc ELSE "RuntimeError",
                            loader |-> r.loader]

\* ModelLoader.load: [exc, loader], the exception raised and the loader after
LoaderLoad(ld, meanFile, stdFile, blob) ==
    IF ~blob.exists THEN [exc |-> "ModelLoadError", loader |-> ld]
    ELSE IF ~(meanFile.exists /\ meanFile.ok)
    THEN [exc |-> "ModelLoadError", loader |-> ld]
    ELSE LET ld1 == [ld EXCEPT !.mean_set = TRUE, !.input_mean = meanFile.data]
         IN  IF ~(stdFile.exists /\ stdFile.ok)
             THEN [exc |-> "ModelLoadError", loader |-> ld1]
             ELSE LET ld2 == [ld1 EXCEPT !.std_set = TRUE, !.input_std = stdFile.data]
                  IN  IF ~blob.ok
                      THEN [exc |-> "ModelLoadError", loader |-> ld2]
                      ELSE BuildModel(ld2, blob, Len(ld2.input_mean),
                                      IF blob.fc # 0 THEN blob.fc ELSE DefaultOutputDim)

\* output = self.model(x_tensor): an opaque deterministic function of the
\* input with output_dim components
Forward(net, v) ==
    [i \in 1..net.output_dim |->
        [w |-> net.weights, o |-> i,
         v |-> IF v = <<>> THEN QZero ELSE v[((i - 1) % Len(v)) + 1]]]

\* the points spaced as with endpoint=False: the upper bound is not reached
LinspaceNoEndpoint(n) ==
    [i \in 1..n |-> Q(WaveLo * n + (WaveHi - WaveLo) * (i - 1), n)]

\* np.linspace(400, 1000, n)
Linspace(n) ==
    [i \in 1..n |-> IF n = 1 THEN Q(WaveLo, 1)
                    ELSE Q(WaveLo * (n - 1) + (WaveHi - WaveLo) * (i - 1), n - 1)]

NoResult == [wavelengths |-> <<>>, intensities |-> <<>>]

\* the length compared with that of the std vector instead of the mean vector
DimensionCheckFailsStd(ld, features) == Len(features) # Len(ld.input_std)

\* if len(features) != self.input_mean.shape[0]: raise ValueError
DimensionCheckFails(ld, features) == Len(features) # Len(ld.input_mean)

\* ModelLoader.predict: [exc, site, result, fwd]; fwd is the sequence of
\* forward passes made (none or one), each with the vector fed to the network
\* and the loader that ran it.  accept decides whether the network takes an
\* input whose length is not its input_dim.
LoaderPredict(ld, features, accept) ==
    IF ~ld.model.built
    THEN [exc |-> "RuntimeError", site |-> "not_loaded", result |-> NoResult, fwd |-> <<>>]
    ELSE IF DimensionCheckFails(ld, features)
    THEN [exc |-> "ValueError", site |-> "dimension", result |-> NoResult, fwd |-> <<>>]
    ELSE IF ~StandardizeOk(features, ld.input_mean, ld.input_std)
    THEN [exc |-> "ValueError", site |-> "broadcast", result |-> NoResult, fwd |-> <<>>]
    ELSE LET v    == Standardize(features, ld.input_mean, ld.input_std)
             pass == <<[input |-> v, loader |-> ld, features |-> features]>>
         IN  IF Len(v) # ld.model.input_dim /\ ~accept
             THEN [exc |-> "RuntimeError", site |-> "forward",
                   result |-> NoResult, fwd |-> pass]
             ELSE LET out == Forward(ld.model, v)
                  IN  [exc |-> NoExc, site |-> "none",
                       result |-> [wavelengths |-> Linspace(Len(out)),
                                   intensities |-> out],
                       fwd |-> pass]

(***************************************************************************)
(* model.py:128-139  the capture folder: a set of files [name, mtime,      *)
(* readable, img]; names are the capture timestamps, so the order of the   *)
(* paths is the order of the names.                                        *)
(***************************************************************************)
NoPath == 0

\* files.sort(key=getmtime, reverse=True)[0] of the name-sorted list: the
\* newest file, the first by name among equally new ones
LatestCapture(dir) ==
    IF dir = {} THEN NoPath
    ELSE LET newest == {f \in dir : \A g \in dir : g.mtime <= f.mtime}
         IN  (CHOOSE f \in newest : \A g \in newest : f.name <= g.name).name

FileOf(dir, name) == CHOOSE f \in dir : f.name = name

(***************************************************************************)
(* State.                                                                  *)
(***************************************************************************)
VARIABLES
    captureDir,  \* capture/: the set of capture files
    bgFile,      \* src/models/bgrois.txt
    fgFile,      \* src/models/rois.txt
    meanFile,    \* src/models/input_mean.npy
    stdFile,     \* src/models/input_std.npy
    modelFile,   \* src/models/model.pth
    resultDir,   \* result/: the names of the captures that have a spectrum plot
    pc,          \* the statement reconstruct_latest is at
    img_path, img_gray, bg_value, fg_list, features, mean, std, x,
                 \* the locals of reconstruct_latest
    loader,      \* the ModelLoader object
    result,      \* what predict returned
    raised,      \* [kind, cause]: the exception that left the call
    returned,    \* the path the call returned, NoPath before
    trace,       \* the steps of the call so far, in order
    fwd,         \* the forward passes of the call so far
    loadedOnce,  \* some load() of the loader has completed without raising
    lastCall,    \* the last call on the lone ModelLoader and how it ended
    calls,       \* the number of calls made on the lone ModelLoader
    pin,         \* the arguments of the function called on its own
    pout         \* [done, ...]: what that call returned

fsVars == <<captureDir, bgFile, fgFile, meanFile, stdFile, modelFile, resultDir>>
rlVars == <<pc, img_path, img_gray, bg_value, fg_list, features, mean, std, x,
            result, raised, returned, trace>>
ldVars == <<loader, fwd, loadedOnce, lastCall, calls>>
parseVars == <<pin, pout>>

VARIABLES
    mode,        \* what start_system is running: "boot", "cli", "buttons", "exited";
                 \* how the command loop ended: "interrupt", "eof", "aborted"
    btn,         \* what start_control_buttons did: [called, gpio, exc, bound, waiting]
    cmd,         \* the command being executed: [name, via, stage, line]
    capRet,      \* [exc, path, written]: how capture_once ended in this command
    now,         \* the wall clock, in seconds
    ncmd,        \* the number of commands issued so far
    last,        \* the last command that finished and how it ended
    loads        \* how often each asset has been loaded by the finished calls

sysVars == <<mode, btn, cmd, capRet, now, ncmd, last, loads>>
vars == <<fsVars, rlVars, ldVars, parseVars, sysVars>>

NotRaised == [kind |-> NoExc, cause |-> NoExc]
NoCall == [op |-> "none", exc |-> NoExc, site |-> "none", before |-> NewLoader,
           features |-> <<>>]

\* the locals before the call starts
RlIdle ==
    /\ pc = "Idle"
    /\ img_path = NoPath /\ img_gray = <<>> /\ bg_value = QZero
    /\ fg_list = <<>> /\ features = <<>> /\ mean = <<>> /\ std = <<>> /\ x = <<>>
    /\ result = NoResult /\ raised = NotRaised /\ returned = NoPath
    /\ trace = <<>>

LdIdle ==
    /\ loader = NewLoader /\ fwd = <<>> /\ loadedOnce = FALSE
    /\ lastCall = NoCall /\ calls = 0

NoCmd == [name |-> "none", via |-> "none", stage |-> "prompt", line |-> <<>>]
NoCapture == [exc |-> NoExc, path |-> NoPath, written |-> FALSE]
NoButtons == [called |-> FALSE, gpio |-> FALSE, exc |-> NoExc, bound |-> <<>>,
              waiting |-> FALSE]

\* reset_workspace: the files removed from capture/ and from result/
NoneRemoved == [captures |-> {}, results |-> {}]

\* what a finished command leaves behind
Entry(c, cap, tr, path, exc, ret, cdir, rdir) ==
    [name |-> c.name, via |-> c.via, line |-> c.line, cap |-> cap, trace |-> tr, img_path |-> path,
     raised |-> exc, returned |-> ret, captureDir |-> cdir, resultDir |-> rdir,
     removed |-> NoneRemoved, failed |-> NoneRemoved]
NoEntry == Entry(NoCmd, NoCapture, <<>>, NoPath, NotRaised, NoPath, {}, {})
NoLoads == [rois |-> 0, stats |-> 0, weights |-> 0]

\* no command loop running
SysIdle ==
    /\ mode = "boot" /\ btn = NoButtons /\ cmd = NoCmd /\ capRet = NoCapture
    /\ now = 1 /\ ncmd = 0 /\ last = NoEntry /\ loads = NoLoads

ParseIdle == pin = [lines |-> <<>>, limit |-> LimitNone] /\ pout = [done |-> FALSE, rois |-> <<>>]

(***************************************************************************)
(* The inputs the model draws from.                                        *)
(***************************************************************************)
\* how far the line and array counts range around the required 32
Slack == 1

D(n) == Digits[n + 1]
RoiText(rx, ry, rw, rh) == <<D(rx), ",", D(ry), ",", D(rw), ",", D(rh)>>

ImgUniform == <<<<100, 100, 100>>, <<100, 100, 100>>>>
ImgVaried == <<<<0, 50, 255>>, <<10, 20, 30>>>>

CaptureDirs ==
    { {},
      {[name |-> 1, mtime |-> 1, readable |-> FALSE, img |-> <<>>]},
      {[name |-> 1, mtime |-> 1, readable |-> TRUE, img |-> ImgVaried],
       [name |-> 2, mtime |-> 2, readable |-> TRUE, img |-> ImgUniform]} }

BgFiles ==
    { NoTextFile,
      TextFile(<<>>),
      TextFile(<<<<"1", ",", "2", ",", "3", ",", "4", ",", "5", "0">>>>),
      TextFile(<<<<"1", " ", "2", "\t", "3", ",", " ", "4", ",", "0", ".", "5", "\r">>,
                 <<"x">>>>),
      TextFile(<<<<"1", ",", "2", ",", "3", ",", "4", ",", "0">>>>),
      TextFile(<<<<"1", ",", "2", ",", "3", ",", "4">>>>),
      TextFile(<<<<"1", ",", "2", ",", "3", ",", "4", ",", "x">>>>),
      TextFile(<<<<>>, <<"1", ",", "2", ",", "3", ",", "4", ",", "5", "0">>>>) }

\* the i-th region of a foreground file; every fourth lies right of the image
FgLine(i) == RoiText(i % 4, i % 2, 1 + (i % 2), 1)
FgPrefixes ==
    { <<>>,
      <<<<" ">>, <<"1", ",", "2", ",", "x", ",", "4">>, <<"1", ",", "2">>,
        <<"3", ",", "1", ",", "0", ",", "-", "1">>>> }
FgFiles ==
    {NoTextFile} \cup
    { TextFile(pre \o [i \in 1..n |-> FgLine(i)]) :
        pre \in FgPrefixes, n \in (RequiredCount - Slack)..(RequiredCount + Slack) }

ConstArray(n, v) == [i \in 1..n |-> v]
StatLens == (StatsDim - Slack)..(StatsDim + Slack)
MeanFiles ==
    {NoArrayFile, BadArrayFile}
    \cup { ArrayFile(ConstArray(n, Q(1, 1))) : n \in StatLens }
    \cup { ArrayFile([i \in 1..StatsDim |-> Q(i % 3, 1)]) }
StdFiles ==
    {NoArrayFile}
    \cup { ArrayFile(ConstArray(n, Q(1, 1))) : n \in {1, StatsDim} }
    \cup { ArrayFile([i \in 1..StatsDim |-> Q(i % 2, 2)]) }

OutDim == 3
Blobs ==
    { NoBlob, BadBlob, Blob(OutDim, StatsDim), Blob(0, StatsDim),
      Blob(OutDim, StatsDim - 1) }

(***************************************************************************)
(* reconstruct_latest, statement by statement.                             *)
(***************************************************************************)
Frame == UNCHANGED <<fsVars, loadedOnce, lastCall, calls, parseVars>>

\* the order the statements would have with every asset loaded first
AfterAssetsFirst(s) ==
    CASE s = "SelectCapture"  -> "ReadImage"
      [] s = "ReadImage"      -> "LoadBackground"
      [] s = "LoadBackground" -> "LoadForeground"
      [] s = "LoadForeground" -> "LoadStats"
      [] s = "LoadStats"      -> "Extract"
      [] s = "Extract"        -> "Normalize"
      [] s = "Normalize"      -> "LoadModel"
      [] s = "LoadModel"      -> "Predict"
      [] s = "Predict"        -> "Build"
      [] s = "Build"          -> "SavePlot"
      [] s = "SavePlot"       -> "Done"

\* the statement that follows step s of the function body
After(s) ==
    CASE s = "SelectCapture"  -> "ReadImage"
      [] s = "ReadImage"      -> "LoadBackground"
      [] s = "LoadBackground" -> "LoadForeground"
      [] s = "LoadForeground" -> "Extract"
      [] s = "Extract"        -> "LoadStats"
      [] s = "LoadStats"      -> "Normalize"
      [] s = "Normalize"      -> "LoadModel"
      [] s = "LoadModel"      -> "Predict"
      [] s = "Predict"        -> "Build"
      [] s = "Build"          -> "SavePlot"
      [] s = "SavePlot"       -> "Done"

\* the exception recorded but the call left at its start, free to run again
FailResumes(s, kind, cause) ==
    /\ pc' = "Idle"
    /\ raised' = [kind |-> kind, cause |-> cause]
    /\ trace' = trace \o <<s, "Failed">>

\* an exception leaves the call at step s
Fail(s, kind, cause) ==
    /\ pc' = "Failed"
    /\ raised' = [kind |-> kind, cause |-> cause]
    /\ trace' = trace \o <<s, "Failed">>

Step(s) ==
    /\ pc' = After(s)
    /\ trace' = Append(trace, s)
    /\ raised' = raised

\* model.py:184-186
SelectCapture ==
    /\ pc = "Idle"
    /\ LET p == LatestCapture(captureDir)
       IN  IF p = NoPath
           THEN Fail("SelectCapture", "RuntimeError", NoExc) /\ img_path' = img_path
           ELSE Step("SelectCapture") /\ img_path' = p
    /\ UNCHANGED <<img_gray, bg_value, fg_list, features, mean, std, x, result,
                   returned, loader, fwd>>
    /\ Frame

\* model.py:188-191
ReadImage ==
    /\ pc = "ReadImage"
    /\ LET f == FileOf(captureDir, img_path)
       IN  IF ~f.readable
           THEN Fail("ReadImage", "RuntimeError", NoExc) /\ img_gray' = img_gray
           ELSE Step("ReadImage") /\ img_gray' = f.img
    /\ UNCHANGED <<img_path, bg_value, fg_list, features, mean, std, x, result,
                   returned, loader, fwd>>
    /\ Frame

\* model.py:193-206
LoadBackgroundStep ==
    /\ pc = "LoadBackground"
    /\ LET r == LoadBackground(bgFile)
       IN  IF r.exc # NoExc
           THEN Fail("LoadBackground", r.exc, NoExc) /\ bg_value' = bg_value
           ELSE Step("LoadBackground") /\ bg_value' = r.value
    /\ UNCHANGED <<img_path, img_gray, fg_list, features, mean, std, x, result,
                   returned, loader, fwd>>
    /\ Frame

\* model.py:208-213
LoadForegroundStep ==
    /\ pc = "LoadForeground"
    /\ LET r == LoadForeground(fgFile)
       IN  IF r.exc # NoExc
           THEN Fail("LoadForeground", r.exc, NoExc) /\ fg_list' = fg_list
           ELSE Step("LoadForeground") /\ fg_list' = r.rois
    /\ UNCHANGED <<img_path, img_gray, bg_value, features, mean, std, x, result,
                   returned, loader, fwd>>
    /\ Frame

\* model.py:215-216
Extract ==
    /\ pc = "Extract"
    /\ LET r == ExtractFeatures(img_gray, fg_list, bg_value)
       IN  IF r.exc # NoExc
           THEN Fail("Extract", r.exc, NoExc) /\ features' = features
           ELSE Step("Extract") /\ features' = r.features
    /\ UNCHANGED <<img_path, img_gray, bg_value, fg_list, mean, std, x, result,
                   returned, loader, fwd>>
    /\ Frame

\* model.py:218-228
LoadStatsStep ==
    /\ pc = "LoadStats"
    /\ LET r == LoadStats(meanFile, stdFile)
       IN  IF r.exc # NoExc
           THEN Fail("LoadStats", r.exc, NoExc) /\ UNCHANGED <<mean, std>>
           ELSE Step("LoadStats") /\ mean' = r.mean /\ std' = r.std
    /\ UNCHANGED <<img_path, img_gray, bg_value, fg_list, features, x, result,
                   returned, loader, fwd>>
    /\ Frame

\* model.py:229
Normalize ==
    /\ pc = "Normalize"
    /\ IF ~StandardizeOk(features, mean, std)
       THEN Fail("Normalize", "ValueError", NoExc) /\ x' = x
       ELSE Step("Normalize") /\ x' = Standardize(features, mean, std)
    /\ UNCHANGED <<img_path, img_gray, bg_value, fg_list, features, mean, std,
                   result, returned, loader, fwd>>
    /\ Frame

\* model.py:232-235, 237-238: a fresh loader, loader.load(); any exception
\* is raised again as RuntimeError
LoadModel ==
    /\ pc = "LoadModel"
    /\ LET r == LoaderLoad(NewLoader, meanFile, stdFile, modelFile)
       IN  /\ loader' = r.loader
           /\ IF r.exc # NoExc
              THEN Fail("LoadModel", "RuntimeError", r.exc)
              ELSE Step("LoadModel")
    /\ UNCHANGED <<img_path, img_gray, bg_value, fg_list, features, mean, std, x,
                   result, returned, fwd>>
    /\ Frame

\* model.py:236-238: loader.predict(x.tolist())
Predict ==
    /\ pc = "Predict"
    /\ \E accept \in BOOLEAN :
         LET r == LoaderPredict(loader, x, accept)
         IN  /\ fwd' = fwd \o r.fwd
             /\ IF r.exc # NoExc
                THEN Fail("Predict", "RuntimeError", r.exc) /\ result' = result
                ELSE Step("Predict") /\ result' = r.result
    /\ UNCHANGED <<img_path, img_gray, bg_value, fg_list, features, mean, std, x,
                   returned, loader>>
    /\ Frame

\* model.py:243: result.get("wavelengths") or list(range(400, 400 + len(intensities)))
PlotAxis(res) ==
    IF res.wavelengths # <<>> THEN res.wavelengths
    ELSE [i \in 1..Len(res.intensities) |-> Q(400 + i - 1, 1)]

\* model.py:240-243
Build ==
    /\ pc = "Build"
    /\ IF result.intensities = <<>>
       THEN Fail("Build", "RuntimeError", NoExc) /\ result' = result
       ELSE /\ Step("Build")
            /\ result' = [result EXCEPT !.wavelengths = PlotAxis(result)]
    /\ UNCHANGED <<img_path, img_gray, bg_value, fg_list, features, mean, std, x,
                   returned, loader, fwd>>
    /\ UNCHANGED <<fsVars, loadedOnce, lastCall, calls, parseVars>>

\* model.py:245-260: the plot is written to result/<base>_spectrum.png and its
\* path returned; when the file cannot be written the exception leaves the call
SavePlot ==
    /\ pc = "SavePlot"
    /\ \E ok \in BOOLEAN :
         IF ok
         THEN /\ Step("SavePlot")
              /\ resultDir' = resultDir \cup {img_path}
              /\ returned' = img_path
         ELSE /\ Fail("SavePlot", "OSError", NoExc)
              /\ UNCHANGED <<resultDir, returned>>
    /\ UNCHANGED <<img_path, img_gray, bg_value, fg_list, features, mean, std, x,
                   result, loader, fwd>>
    /\ UNCHANGED <<captureDir, bgFile, fgFile, meanFile, stdFile, modelFile,
                   loadedOnce, lastCall, calls, parseVars>>

Init ==
    /\ SysIdle
    /\ captureDir \in CaptureDirs
    /\ bgFile \in BgFiles
    /\ fgFile \in FgFiles
    /\ meanFile \in MeanFiles
    /\ stdFile \in StdFiles
    /\ modelFile \in Blobs
    /\ resultDir = {}
    /\ RlIdle /\ LdIdle /\ ParseIdle

Next ==
    /\ UNCHANGED sysVars
    /\ \/ SelectCapture
       \/ ReadImage
       \/ LoadBackgroundStep
       \/ LoadForegroundStep
       \/ Extract
       \/ LoadStatsStep
       \/ Normalize
       \/ LoadModel
       \/ Predict
       \/ Build
       \/ SavePlot

Spec == Init /\ [][Next]_vars

(***************************************************************************)
(* A ModelLoader used on its own: any sequence of load() and predict()     *)
(* calls, each load() reading whatever the three files hold at that time.  *)
(***************************************************************************)
MaxDim == 2
MaxCalls == 3

LdLens == 1..MaxDim
LdMeanFiles == {NoArrayFile} \cup { ArrayFile(ConstArray(n, Q(1, 1))) : n \in LdLens }
LdStdFiles == {NoArrayFile} \cup { ArrayFile(ConstArray(n, Q(1, 2))) : n \in LdLens }
LdBlobs == {NoBlob, BadBlob} \cup { Blob(fc, n) : fc \in {0, 1, OutDim}, n \in LdLens }
LdFeatures == { ConstArray(n, Q(2, 1)) : n \in LdLens }

\* loader.load()
LdLoad ==
    /\ calls < MaxCalls
    /\ \E mf \in LdMeanFiles, sf \in LdStdFiles, b \in LdBlobs :
         LET r == LoaderLoad(loader, mf, sf, b)
         IN  /\ meanFile' = mf /\ stdFile' = sf /\ modelFile' = b
             /\ loader' = r.loader
             /\ loadedOnce' = (loadedOnce \/ r.exc = NoExc)
             /\ lastCall' = [op |-> "load", exc |-> r.exc, site |-> "none",
                             before |-> loader, features |-> <<>>]
    /\ fwd' = <<>>
    /\ calls' = calls + 1
    /\ UNCHANGED <<captureDir, bgFile, fgFile, resultDir, rlVars, parseVars>>

\* loader.predict(features)
LdPredict ==
    /\ calls < MaxCalls
    /\ \E f \in LdFeatures, accept \in BOOLEAN :
         LET r == LoaderPredict(loader, f, accept)
         IN  /\ fwd' = r.fwd
             /\ result' = r.result
             /\ lastCall' = [op |-> "predict", exc |-> r.exc, site |-> r.site,
                             before |-> loader, features |-> f]
    /\ calls' = calls + 1
    /\ UNCHANGED <<fsVars, loader, loadedOnce, parseVars>>
    /\ UNCHANGED <<pc, img_path, img_gray, bg_value, fg_list, features, mean, std, x,
                   raised, returned, trace>>

InitLoader ==
    /\ SysIdle
    /\ captureDir = {} /\ bgFile = NoTextFile /\ fgFile = NoTextFile
    /\ meanFile = NoArrayFile /\ stdFile = NoArrayFile /\ modelFile = NoBlob
    /\ resultDir = {}
    /\ RlIdle /\ LdIdle /\ ParseIdle

NextLoader == UNCHANGED sysVars /\ (LdLoad \/ LdPredict)

SpecLoader == InitLoader /\ [][NextLoader]_vars

(***************************************************************************)
(* _load_rois as a function of its arguments.                              *)
(***************************************************************************)
MaxFileLines == 3
MaxLimit == 2

ParseLines ==
    { <<" ">>,
      <<"1", ",", "2", ",", "3", ",", "4">>,
      <<"5", " ", "6", "\t", "7", ",", " ", "8", ",", "9", "\r">>,
      <<"1", ",", "2", ",", "3">>,
      <<"1", ",", "x", ",", "3", ",", "4">>,
      <<"4", ",", "3", ",", "2", ",", "1", ",", "x">>,
      <<"1", ".", "5", ",", "2", ",", "3", ",", "4">>,
      <<"-", "1", ",", "0", ",", "0", ",", "-", "2">> }
ParseFiles == UNION { [1..n -> ParseLines] : n \in 0..MaxFileLines }
Limits == {LimitNone} \cup { LimitOf(n) : n \in 0..MaxLimit }

\* rois = _load_rois(path, limit)
LoadRoisCall ==
    /\ ~pout.done
    /\ pout' = [done |-> TRUE, rois |-> LoadRois(pin.lines, pin.limit)]
    /\ UNCHANGED <<pin, fsVars, rlVars, ldVars>>

InitParse ==
    /\ SysIdle
    /\ captureDir = {} /\ bgFile = NoTextFile /\ fgFile = NoTextFile
    /\ meanFile = NoArrayFile /\ stdFile = NoArrayFile /\ modelFile = NoBlob
    /\ resultDir = {}
    /\ RlIdle /\ LdIdle
    /\ pin \in [lines : ParseFiles, limit : Limits]
    /\ pout = [done |-> FALSE, rois |-> <<>>]

NextParse == UNCHANGED sysVars /\ LoadRoisCall

SpecParse == InitParse /\ [][NextParse]_vars

(***************************************************************************)
(* _compute_roi_mean_gray as a function of its arguments: pin is           *)
(* [img, roi] and pout is [done, mean].                                    *)
(***************************************************************************)
MaxOff == 2
MaxSide == 3

MeanImages ==
    { <<<<7>>>>,
      <<<<0, 50, 255>>, <<10, 20, 30>>>>,
      <<<<1, 2>>, <<3, 5>>, <<8, 13>>>> }
MeanRois == ((0 - MaxOff)..(MaxOff + 2)) \X ((0 - MaxOff)..(MaxOff + 2))
                \X ((0 - 1)..MaxSide) \X ((0 - 1)..MaxSide)

\* v = _compute_roi_mean_gray(img_gray, roi)
MeanCall ==
    /\ ~pout.done
    /\ pout' = [done |-> TRUE, mean |-> ComputeRoiMeanGray(pin.img, pin.roi)]
    /\ UNCHANGED <<pin, fsVars, rlVars, ldVars>>

InitMean ==
    /\ SysIdle
    /\ captureDir = {} /\ bgFile = NoTextFile /\ fgFile = NoTextFile
    /\ meanFile = NoArrayFile /\ stdFile = NoArrayFile /\ modelFile = NoBlob
    /\ resultDir = {}
    /\ RlIdle /\ LdIdle
    /\ pin \in [img : MeanImages, roi : MeanRois]
    /\ pout = [done |-> FALSE, mean |-> QZero]

NextMean == UNCHANGED sysVars /\ MeanCall

SpecMean == InitMean /\ [][NextMean]_vars

(***************************************************************************)
(* system.py, button.py, camera.py: the process.  start_system picks the   *)
(* button mode or the command loop; a command runs capture_once,           *)
(* reconstruct_latest (statement by statement, as above), both, or         *)
(* reset_workspace.  _do_run of button.py has the body of the loop's run   *)
(* branch; cmd.via tells which of the two is running.                      *)
(***************************************************************************)
MaxCmds == 2

\* the names the modules define at their top level
ModuleNames(m) ==
    CASE m = "src.system" -> {"print_help", "start_interactive_cli", "start_system",
                              "_safe_rm", "_list_files", "reset_workspace"}
      [] m = "src.camera" -> {"_ensure_dir", "check_camera", "capture_once"}
      [] m = "src.model"  -> {"_load_numpy_array", "check_model", "_list_captures",
                              "_latest_capture", "_parse_roi_line", "_load_rois",
                              "_compute_roi_mean_gray", "reconstruct_latest"}

\* button.py:24-26: from <module> import <name>, in order
ButtonImports ==
    << [module |-> "src.system", name |-> "reset_captures"],
       [module |-> "src.camera", name |-> "capture_once"],
       [module |-> "src.model",  name |-> "reconstruct_latest"] >>

ImportFails(imp) == imp.name \notin ModuleNames(imp.module)

\* button.py:28-38: the four actions, zipped with the four pins
ButtonActions == <<"reset", "run", "capture", "reconstruct">>

\* start_control_buttons(): what it has done when it returns, raises or waits
StartControlButtons(gpio) ==
    IF ~gpio
    THEN [called |-> TRUE, gpio |-> FALSE, exc |-> NoExc, bound |-> <<>>,
          waiting |-> FALSE]
    ELSE IF \E i \in 1..Len(ButtonImports) : ImportFails(ButtonImports[i])
    THEN [called |-> TRUE, gpio |-> TRUE, exc |-> "ImportError", bound |-> <<>>,
          waiting |-> FALSE]
    ELSE [called |-> TRUE, gpio |-> TRUE, exc |-> NoExc, bound |-> ButtonActions,
          waiting |-> TRUE]

\* system.py:143-169: the button mode chosen; an exception falls back to the CLI
StartButtons ==
    /\ mode = "boot"
    /\ \E gpio \in BOOLEAN :
         LET r == StartControlButtons(gpio)
         IN  /\ btn' = r
             /\ mode' = IF r.exc # NoExc THEN "cli"
                        ELSE IF r.waiting THEN "buttons" ELSE "exited"
    /\ UNCHANGED <<cmd, capRet, now, ncmd, last, loads>>
    /\ UNCHANGED <<fsVars, rlVars, ldVars, parseVars>>

\* system.py:171-172: the CLI chosen
StartCli ==
    /\ mode = "boot"
    /\ mode' = "cli"
    /\ UNCHANGED <<btn, cmd, capRet, now, ncmd, last, loads>>
    /\ UNCHANGED <<fsVars, rlVars, ldVars, parseVars>>

Commands == {"capture", "reconstruct", "run", "reset"}

\* system.py:96-131: a command line read at the prompt; button.py:60: _do_run called
Issue ==
    /\ cmd = NoCmd /\ ncmd < MaxCmds
    /\ \E c \in Commands, via \in {"cli", "do_run"} :
         /\ via = "do_run" => c = "run"
         /\ via = "cli" => mode = "cli"
         /\ via = "do_run" => mode # "boot"
         /\ cmd' = [name |-> c, via |-> via,
                    stage |-> IF c \in {"capture", "run"} THEN "capture"
                              ELSE IF c = "reconstruct" THEN "reconstruct"
                              ELSE "reset",
                    line |-> <<>>]
    /\ ncmd' = ncmd + 1
    /\ capRet' = NoCapture
    /\ UNCHANGED <<mode, btn, now, last, loads>>
    /\ UNCHANGED <<fsVars, rlVars, ldVars, parseVars>>

\* the run goes on to the reconstruction whatever capture_once did
AfterCaptureAlways(name, exc) ==
    IF name = "run" THEN "reconstruct" ELSE "prompt"

\* system.py:99-101, 120-123, button.py:62-64: the statement after
\* path = capture_once(); an exception goes to the except clause
AfterCapture(name, exc) ==
    IF exc # NoExc THEN "prompt"
    ELSE IF name = "run" THEN "reconstruct" ELSE "prompt"

CameraOutcomes == {"failed", "written", "not_written"}

\* camera.py:95-145 capture_once, then the caller's next statement.  The
\* camera fails (RuntimeError), or a frame is saved under the timestamp, or
\* cv2.imwrite writes no file and returns False, which the code does not test
CaptureOnce ==
    /\ cmd.stage = "capture"
    /\ \E o \in CameraOutcomes :
         LET ts    == now + 1
             cap   == IF o = "failed"
                      THEN [exc |-> "RuntimeError", path |-> NoPath, written |-> FALSE]
                      ELSE [exc |-> NoExc, path |-> ts, written |-> o = "written"]
             dir   == IF o = "written"
                      THEN captureDir \cup
                           {[name |-> ts, mtime |-> ts, readable |-> TRUE,
                             img |-> ImgUniform]}
                      ELSE captureDir
             stage == AfterCapture(cmd.name, cap.exc)
         IN  /\ now' = IF o = "failed" THEN now ELSE ts
             /\ captureDir' = dir
             /\ capRet' = cap
             /\ IF stage = "prompt"
                THEN /\ cmd' = NoCmd
                     /\ last' = Entry(cmd, cap, <<>>, NoPath, NotRaised, NoPath,
                                      dir, resultDir)
                ELSE /\ cmd' = [cmd EXCEPT !.stage = stage]
                     /\ last' = last
    /\ UNCHANGED <<mode, btn, ncmd, loads>>
    /\ UNCHANGED <<bgFile, fgFile, meanFile, stdFile, modelFile, resultDir>>
    /\ UNCHANGED <<rlVars, ldVars, parseVars>>

\* a statement of reconstruct_latest, called by the command
ReconstructStep ==
    /\ cmd.stage = "reconstruct"
    /\ UNCHANGED sysVars
    /\ \/ SelectCapture
       \/ ReadImage
       \/ LoadBackgroundStep
       \/ LoadForegroundStep
       \/ Extract
       \/ LoadStatsStep
       \/ Normalize
       \/ LoadModel
       \/ Predict
       \/ Build
       \/ SavePlot

\* 1 when the step ran in the call and did not raise, 0 otherwise
LoadedIn(tr, s) ==
    IF \E i \in 1..Len(tr) : tr[i] = s /\ (i = Len(tr) \/ tr[i + 1] # "Failed")
    THEN 1 ELSE 0

\* reconstruct_latest has returned or raised: the caller prints the path or
\* the error and goes back to the prompt; the locals are gone
ReconstructReturn ==
    /\ cmd.stage = "reconstruct"
    /\ pc \in {"Done", "Failed"}
    /\ last' = Entry(cmd, capRet, trace, img_path, raised, returned,
                     captureDir, resultDir)
    /\ loads' = [rois    |-> loads.rois + LoadedIn(trace, "LoadForeground"),
                 stats   |-> loads.stats + LoadedIn(trace, "LoadStats"),
                 weights |-> loads.weights + LoadedIn(trace, "LoadModel")]
    /\ cmd' = NoCmd
    /\ pc' = "Idle"
    /\ img_path' = NoPath /\ img_gray' = <<>> /\ bg_value' = QZero
    /\ fg_list' = <<>> /\ features' = <<>> /\ mean' = <<>> /\ std' = <<>> /\ x' = <<>>
    /\ result' = NoResult /\ raised' = NotRaised /\ returned' = NoPath
    /\ trace' = <<>>
    /\ loader' = NewLoader /\ fwd' = <<>>
    /\ UNCHANGED <<mode, btn, capRet, now, ncmd>>
    /\ UNCHANGED <<fsVars, loadedOnce, lastCall, calls, parseVars>>

\* os.remove taken to succeed on every file
SafeRmSkips(file, failing) == TRUE

\* system.py:180-185 _safe_rm: True when the file is removed, False when
\* os.remove raises; failing is the set of files os.remove raises for
SafeRm(file, failing) == file \notin failing

\* system.py:196-204 reset_workspace: _safe_rm on every file of capture/ and
\* of result/; the files that stay are those os.remove raised for
ResetWorkspace ==
    /\ cmd.stage = "reset"
    /\ \E fc \in {{}, captureDir}, fr \in {{}, resultDir} :
         LET c_ok == {f \in captureDir : SafeRm(f, fc)}
             r_ok == {f \in resultDir : SafeRm(f, fr)}
         IN  /\ captureDir' = captureDir \ c_ok
             /\ resultDir' = resultDir \ r_ok
             /\ last' = [Entry(cmd, capRet, <<>>, NoPath, NotRaised, NoPath,
                               captureDir', resultDir')
                           EXCEPT !.removed = [captures |-> c_ok, results |-> r_ok],
                                  !.failed = [captures |-> fc, results |-> fr]]
    /\ cmd' = NoCmd
    /\ UNCHANGED <<mode, btn, capRet, now, ncmd, loads>>
    /\ UNCHANGED <<bgFile, fgFile, meanFile, stdFile, modelFile>>
    /\ UNCHANGED <<rlVars, ldVars, parseVars>>

SysFgFile == TextFile([i \in 1..RequiredCount |-> FgLine(i)])
SysBgFile == TextFile(<<<<"1", ",", "2", ",", "3", ",", "4", ",", "5", "0">>>>)

InitSys ==
    /\ captureDir \in
         { {}, {[name |-> 1, mtime |-> 1, readable |-> TRUE, img |-> ImgVaried]} }
    /\ bgFile = SysBgFile
    /\ fgFile = SysFgFile
    /\ meanFile = ArrayFile(ConstArray(StatsDim, Q(1, 1)))
    /\ stdFile = ArrayFile(ConstArray(StatsDim, Q(1, 1)))
    /\ modelFile = Blob(OutDim, StatsDim)
    /\ resultDir = {}
    /\ RlIdle /\ LdIdle /\ ParseIdle /\ SysIdle

NextSys ==
    \/ StartButtons
    \/ StartCli
    \/ Issue
    \/ CaptureOnce
    \/ ReconstructStep
    \/ ReconstructReturn
    \/ ResetWorkspace

SpecSys == InitSys /\ [][NextSys]_vars

(***************************************************************************)
(* system.py:39-131  start_interactive_cli on its own: the lines typed at  *)
(* the prompt, Ctrl-C and Ctrl-D included.                                 *)
(***************************************************************************)
MaxLines == 2

UpperCase == <<"A", "B", "C", "D", "E", "F", "G", "H", "I", "J", "K", "L", "M",
               "N", "O", "P", "Q", "R", "S", "T", "U", "V", "W", "X", "Y", "Z">>
LowerCase == <<"a", "b", "c", "d", "e", "f", "g", "h", "i", "j", "k", "l", "m",
               "n", "o", "p", "q", "r", "s", "t", "u", "v", "w", "x", "y", "z">>

\* str.lower()
LowerChar(c) ==
    IF \E i \in 1..26 : UpperCase[i] = c
    THEN LowerCase[CHOOSE i \in 1..26 : UpperCase[i] = c] ELSE c
Lower(s) == [i \in 1..Len(s) |-> LowerChar(s[i])]

\* str.split(): the pieces between runs of whitespace
WsSplit(s) ==
    StripNonEmpty(Split(Replace(Replace(Replace(s, "\t", " "), "\r", " "), "\n", " "),
                        " "))

\* str.startswith(p)
StartsWith(s, p) == Len(s) >= Len(p) /\ SubSeq(s, 1, Len(p)) = p

\* system.py:60-131: the branch of the loop body a line takes
Dispatch(raw) ==
    LET c   == Strip(raw)
        low == Lower(c)
        parts == WsSplit(low)
    IN  IF c = <<>> THEN "empty"
        ELSE IF low \in {<<"h", "e", "l", "p">>, <<"?">>, <<"h">>} THEN "help"
        ELSE IF StartsWith(low, <<"t", "e", "s", "t">>)
        THEN IF Len(parts) <= 1 THEN "test_unknown"
             ELSE IF parts[2] = <<"-", "c", "a", "m", "e", "r", "a">> THEN "test_camera"
             ELSE IF parts[2] = <<"-", "b", "u", "t", "t", "o", "n">> THEN "test_button"
             ELSE IF parts[2] = <<"-", "m", "o", "d", "e", "l">> THEN "test_model"
             ELSE "test_unknown"
        ELSE IF low \in {<<"c", "a", "p", "t", "u", "r", "e">>, <<"c">>} THEN "capture"
        ELSE IF low \in {<<"r", "e", "c", "o", "n", "s", "t", "r", "u", "c", "t">>, <<"r">>}
        THEN "reconstruct"
        ELSE IF low = <<"r", "u", "n">> THEN "run"
        ELSE IF low = <<"r", "e", "s", "e", "t">> THEN "reset"
        ELSE "unknown"

\* the lines typed
CliLines ==
    { <<>>, <<" ", "\t">>,
      <<"h", "e", "l", "p">>, <<"?">>,
      <<"t", "e", "s", "t">>,
      <<"T", "e", "s", "t", " ", " ", "-", "C", "a", "m", "e", "r", "a">>,
      <<"t", "e", "s", "t", " ", "-", "b", "u", "t", "t", "o", "n">>,
      <<"t", "e", "s", "t", " ", "-", "m", "o", "d", "e", "l">>,
      <<"t", "e", "s", "t", "c", "a", "m", "e", "r", "a">>,
      <<" ", "C", "a", "p", "t", "u", "r", "e", "\r">>, <<"r">>,
      <<"R", "U", "N">>, <<"r", "e", "s", "e", "t">>,
      <<"r", "u", "n", " ", "n", "o", "w">>, <<"q", "u", "i", "t">> }

\* the branches that only print
PrintOnly == {"empty", "help", "test_button", "test_unknown", "unknown"}

StageOf(branch) ==
    CASE branch \in {"capture", "run"} -> "capture"
      [] branch = "reconstruct" -> "reconstruct"
      [] branch = "reset" -> "reset"
      [] branch \in {"test_camera", "test_model"} -> "test"

\* an except clause that catches nothing
ExceptCatchesNone(kind) == FALSE

\* "except Exception": every exception but those that derive from
\* BaseException only
ExceptCatches(kind) == kind \notin {"KeyboardInterrupt", "SystemExit", "GeneratorExit"}

\* system.py:51-131: raw = input(prompt), then the branch of the line; Ctrl-C
\* and Ctrl-D at the prompt break the loop
CliRead ==
    /\ mode = "cli" /\ cmd = NoCmd /\ ncmd < MaxLines
    /\ ncmd' = ncmd + 1
    /\ capRet' = NoCapture
    /\ \E inp \in {"KeyboardInterrupt", "EOFError", "line"}, raw \in CliLines :
         /\ inp # "line" => raw = <<>>
         /\ IF inp # "line"
            THEN /\ mode' = IF inp = "EOFError" THEN "eof" ELSE "interrupt"
                 /\ UNCHANGED <<cmd, last>>
            ELSE LET b == Dispatch(raw)
                     c == [name |-> b, via |-> "cli", line |-> raw,
                           stage |-> IF b \in PrintOnly THEN "prompt" ELSE StageOf(b)]
                 IN  /\ mode' = mode
                     /\ IF b \in PrintOnly
                        THEN /\ cmd' = NoCmd
                             /\ last' = Entry(c, NoCapture, <<>>, NoPath, NotRaised,
                                              NoPath, captureDir, resultDir)
                        ELSE /\ cmd' = c
                             /\ last' = last
    /\ UNCHANGED <<btn, now, loads>>
    /\ UNCHANGED <<fsVars, rlVars, ldVars, parseVars>>

\* system.py:69-94: test -camera calls check_camera, which returns its result
\* (having saved a screenshot into capture/ of the working directory, taken to
\* be the project root, or not); test -model calls check_model; what either
\* raises is printed
CliTest ==
    /\ mode = "cli" /\ cmd.stage = "test"
    /\ \E o \in {"result", "saved", "raised"} :
         LET ts  == now + 1
             exc == IF o = "raised" THEN "Exception" ELSE NoExc
             dir == IF o = "saved" /\ cmd.name = "test_camera"
                    THEN captureDir \cup
                         {[name |-> ts, mtime |-> ts, readable |-> TRUE,
                           img |-> ImgUniform]}
                    ELSE captureDir
         IN  /\ o = "saved" => cmd.name = "test_camera"
             /\ captureDir' = dir
             /\ now' = IF dir # captureDir THEN ts ELSE now
             /\ mode' = IF exc = NoExc \/ ExceptCatches(exc) THEN "cli" ELSE "aborted"
             /\ last' = Entry(cmd, NoCapture, <<>>, NoPath,
                              [kind |-> exc, cause |-> NoExc], NoPath, dir, resultDir)
    /\ cmd' = NoCmd
    /\ UNCHANGED <<btn, capRet, ncmd, loads>>
    /\ UNCHANGED <<bgFile, fgFile, meanFile, stdFile, modelFile, resultDir>>
    /\ UNCHANGED <<rlVars, ldVars, parseVars>>

\* Ctrl-C while a command runs: KeyboardInterrupt is raised inside the try
\* block of the branch, whose clause is "except Exception"
CliInterrupt ==
    /\ mode = "cli" /\ cmd # NoCmd
    /\ mode' = IF ExceptCatches("KeyboardInterrupt") THEN "cli" ELSE "aborted"
    /\ last' = Entry(cmd, capRet, trace, img_path,
                     [kind |-> "KeyboardInterrupt", cause |-> NoExc], NoPath,
                     captureDir, resultDir)
    /\ loads' = [rois    |-> loads.rois + LoadedIn(trace, "LoadForeground"),
                 stats   |-> loads.stats + LoadedIn(trace, "LoadStats"),
                 weights |-> loads.weights + LoadedIn(trace, "LoadModel")]
    /\ cmd' = NoCmd
    /\ pc' = "Idle"
    /\ img_path' = NoPath /\ img_gray' = <<>> /\ bg_value' = QZero
    /\ fg_list' = <<>> /\ features' = <<>> /\ mean' = <<>> /\ std' = <<>> /\ x' = <<>>
    /\ result' = NoResult /\ raised' = NotRaised /\ returned' = NoPath
    /\ trace' = <<>>
    /\ loader' = NewLoader /\ fwd' = <<>>
    /\ UNCHANGED <<btn, capRet, now, ncmd>>
    /\ UNCHANGED <<fsVars, loadedOnce, lastCall, calls, parseVars>>

\* the statements of the command that is running
CliExec ==
    \/ CliTest
    \/ CaptureOnce
    \/ ReconstructStep
    \/ ReconstructReturn
    \/ ResetWorkspace

InitCli ==
    /\ captureDir \in
         { {}, {[name |-> 1, mtime |-> 1, readable |-> TRUE, img |-> ImgVaried]} }
    /\ bgFile = SysBgFile
    /\ fgFile = SysFgFile
    /\ meanFile = ArrayFile(ConstArray(StatsDim, Q(1, 1)))
    /\ stdFile = ArrayFile(ConstArray(StatsDim, Q(1, 1)))
    /\ modelFile = Blob(OutDim, StatsDim)
    /\ resultDir = {}
    /\ RlIdle /\ LdIdle /\ ParseIdle
    /\ mode = "cli" /\ btn = NoButtons /\ cmd = NoCmd /\ capRet = NoCapture
    /\ now = 1 /\ ncmd = 0 /\ last = NoEntry /\ loads = NoLoads

NextCli ==
    \/ CliRead
    \/ CliInterrupt
    \/ CliExec

\* the thread of the loop goes on with the command it is running: weak
\* fairness of each of its statements.  The last conjunct is
\* WF_vars(ReconstructStep) with ENABLED <<ReconstructStep>>_vars written out
\* as the guard of the pipeline's steps (a reconstruction is running and has
\* not reached its return)
SpecCli ==
    /\ InitCli /\ [][NextCli]_vars
    /\ WF_vars(CliTest) /\ WF_vars(CaptureOnce) /\ WF_vars(ResetWorkspace)
    /\ WF_vars(ReconstructReturn)
    /\ \/ []<>(cmd.stage # "reconstruct" \/ pc \in {"Done", "Failed"})
       \/ []<><<ReconstructStep>>_vars

(***************************************************************************)
(* Properties.                                                             *)
(***************************************************************************)
Ran(s) == \E i \in 1..Len(trace) : trace[i] = s
FailedAt(s) == pc = "Failed" /\ Len(trace) >= 2 /\ trace[Len(trace) - 1] = s
Completed(s) == Ran(s) /\ ~FailedAt(s)
VecEq(a, b) == Len(a) = Len(b) /\ \A i \in 1..Len(a) : QEq(a[i], b[i])
Steps == {"SelectCapture", "ReadImage", "LoadBackground", "LoadForeground",
          "Extract", "LoadStats", "Normalize", "LoadModel", "Predict", "Build",
          "SavePlot"}

\* C1: in a run of reconstruct_latest the vector fed to the network is the raw
\* feature vector standardised once, (value - mean[i]) / (std[i] + 1e-6).
C1_NormalisedOnce ==
    \A i \in 1..Len(fwd) : VecEq(fwd[i].input, Standardize(features, mean, std))

\* the stage of the specification's state machine a step belongs to:
\* 0 Idle, 1 LoadingAssets, 2 ExtractingFeatures, 3 Normalizing, 4 Inferring,
\* 5 BuildingResult
StageRank(s) ==
    CASE s \in {"SelectCapture", "ReadImage"} -> 0
      [] s \in {"LoadBackground", "LoadForeground", "LoadStats", "LoadModel"} -> 1
      [] s = "Extract" -> 2
      [] s = "Normalize" -> 3
      [] s = "Predict" -> 4
      [] s \in {"Build", "SavePlot"} -> 5

TraceSteps == SelectSeq(trace, LAMBDA s : s # "Failed")

\* C2 as claimed: the stages are visited in the order Idle, LoadingAssets,
\* ExtractingFeatures, Normalizing, Inferring, BuildingResult, Done, so every
\* asset is loaded before extraction starts and none after it.
C2_AssetsBeforeExtraction ==
    \A i, j \in 1..Len(TraceSteps) :
        i < j => StageRank(TraceSteps[i]) <= StageRank(TraceSteps[j])

CodeOrder ==
    <<"SelectCapture", "ReadImage", "LoadBackground", "LoadForeground", "Extract",
      "LoadStats", "Normalize", "LoadModel", "Predict", "Build", "SavePlot">>

\* C2 as amended: every run visits the steps in the order capture selection,
\* image read, background ROI, foreground ROIs, extraction, mean/std,
\* normalising, model weights, inference, result building, plot, Done; each
\* asset is loaded before the step that first uses it, the ROI files before
\* extraction, the statistics and the weights after it.
C2_StageOrder ==
    /\ Len(TraceSteps) <= Len(CodeOrder)
    /\ \A i \in 1..Len(TraceSteps) : TraceSteps[i] = CodeOrder[i]
    /\ pc = "Done" => Len(TraceSteps) = Len(CodeOrder)
    /\ pc \notin {"Done", "Failed", "Idle"} => pc = CodeOrder[Len(TraceSteps) + 1]

\* a whole run: the statistics and the weights were loaded after extraction
C2_Witness == pc = "Done" /\ Ran("Extract") /\ Ran("LoadStats") /\ Ran("LoadModel")

\* fewer well-formed foreground lines than required, counted line by line
RECURSIVE ValidCount(_)
ValidCount(lines) ==
    IF lines = <<>> THEN 0
    ELSE (IF ParseRoiLine(Strip(Head(lines))) # None THEN 1 ELSE 0)
            + ValidCount(Tail(lines))

\* C3: Failed is absorbing within one call. A failure is the last thing the
\* call does: it raises, returns no path, writes nothing under result/, and
\* no step runs twice; a step whose input is bad is never followed by a later
\* step; a path is returned only after every step ran and the plot exists.
C3_FailedAbsorbing ==
    /\ Ran("Failed") =>
          /\ pc = "Failed" /\ trace[Len(trace)] = "Failed"
          /\ Cardinality({i \in 1..Len(trace) : trace[i] = "Failed"}) = 1
          /\ raised.kind # NoExc /\ returned = NoPath /\ resultDir = {}
    /\ (pc = "Failed") = (raised.kind # NoExc)
    /\ \A i, j \in 1..Len(trace) : trace[i] = trace[j] => i = j
    /\ Ran("ReadImage") => captureDir # {}
    /\ Ran("LoadForeground") => LoadBackground(bgFile).exc = NoExc
    /\ Ran("Extract") => fgFile.exists /\ ValidCount(fgFile.lines) >= RequiredCount
    /\ Ran("Normalize") =>
          meanFile.exists /\ meanFile.ok /\ stdFile.exists /\ stdFile.ok
    /\ Ran("Predict") =>
          modelFile.exists /\ modelFile.ok /\ loader.model.weights = "loaded"
    /\ returned # NoPath =>
          /\ pc = "Done" /\ raised = NotRaised
          /\ \A s \in Steps : Ran(s)
          /\ returned = img_path /\ returned \in resultDir

\* a call that failed in the middle of the pipeline, after extraction
C3_Witness == pc = "Failed" /\ Ran("Extract") /\ resultDir = {}


\* C4 as claimed: on a lone ModelLoader, predict() raises RuntimeError and makes
\* no forward pass as long as no load() has completed successfully, also after
\* a load() that raised ModelLoadError.
C4_PredictNeedsLoad ==
    (lastCall.op = "predict" /\ ~loadedOnce) =>
        /\ lastCall.exc = "RuntimeError" /\ lastCall.site = "not_loaded"
        /\ fwd = <<>>

\* C5: on a loaded ModelLoader, predict(features) with len(features) different
\* from the length of the loaded mean vector raises the dimension-mismatch
\* ValueError before any normalisation or forward pass and leaves the loader
\* as it was; with equal lengths that error is not raised.
C5_DimensionMismatch ==
    (lastCall.op = "predict" /\ lastCall.before.model.built) =>
        IF Len(lastCall.features) # Len(lastCall.before.input_mean)
        THEN /\ lastCall.exc = "ValueError" /\ lastCall.site = "dimension"
             /\ fwd = <<>> /\ result = NoResult
             /\ loader = lastCall.before
        ELSE lastCall.site # "dimension"

\* a loaded loader refused a feature vector of the wrong length
C5_Witness ==
    /\ lastCall.op = "predict" /\ loadedOnce /\ lastCall.before.model.built
    /\ Len(lastCall.features) # Len(lastCall.before.input_mean)
    /\ lastCall.site = "dimension"

\* C6 as claimed: whenever a forward pass is made, the mean vector, the std
\* vector and the feature vector have the same length.
C6_ShapesAgree ==
    \A i \in 1..Len(fwd) :
        /\ Len(fwd[i].loader.input_mean) = Len(fwd[i].loader.input_std)
        /\ Len(fwd[i].features) = Len(fwd[i].loader.input_mean)
        /\ Len(fwd[i].input) = Len(fwd[i].features)

RECURSIVE FirstNonEmptyLine(_)
FirstNonEmptyLine(lines) ==
    IF lines = <<>> THEN <<>>
    ELSE IF Strip(Head(lines)) # <<>> THEN Strip(Head(lines))
    ELSE FirstNonEmptyLine(Tail(lines))

RoiLoadingDone == Ran("LoadForeground") \/ FailedAt("LoadBackground")
RoiLoadingFailed == FailedAt("LoadBackground") \/ FailedAt("LoadForeground")

RECURSIVE WellFormedRois(_)
WellFormedRois(lines) ==
    IF lines = <<>> THEN <<>>
    ELSE LET t == Tokens(Strip(Head(lines)))
         IN  (IF Len(t) >= 4 /\ \A i \in 1..4 : ParseInt(t[i]).ok
              THEN <<[i \in 1..4 |-> ParseInt(t[i]).val]>>
              ELSE <<>>) \o WellFormedRois(Tail(lines))

\* C8 as claimed: for every file and limit, _load_rois returns the first
\* min(limit, number of well-formed lines) well-formed lines in file order,
\* each as its first four tokens (all of them when limit is None).
C8_FirstLimitWellFormed ==
    pout.done =>
        LET wf == WellFormedRois(pin.lines)
        IN  pout.rois = IF pin.limit.none THEN wf
                        ELSE SubSeq(wf, 1, Min(pin.limit.val, Len(wf)))

\* C9: the background reference used as divisor is never zero: a 5th token of
\* exactly 0 is replaced by 1e-6 and extraction divides by it without a
\* division-by-zero failure; a non-zero token is used unchanged.
C9_NonZeroDivisor ==
    /\ raised.kind # "ZeroDivisionError"
    /\ Completed("LoadBackground") =>
          LET tok == ParseFloat(Tokens(ReadLine(bgFile))[5]).val
          IN  /\ ~QIsZero(bg_value)
              /\ QEq(bg_value, IF QIsZero(tok) THEN Eps ELSE tok)
    /\ Ran("Extract") =>
          /\ Completed("Extract") /\ Len(features) = Len(fg_list)
          /\ \A i \in 1..Len(features) :
                QEq(QMul(features[i], bg_value),
                    ComputeRoiMeanGray(img_gray, fg_list[i]))

\* extraction has divided by the substitute of a zero reference
C9_Witness ==
    /\ Completed("Extract")
    /\ QIsZero(ParseFloat(Tokens(ReadLine(bgFile))[5]).val)
    /\ QEq(bg_value, Eps)

\* C10 as claimed: the reference is the 5th token of the first non-empty line
\* of the background file, however many empty lines precede it.
C10_FirstNonEmptyLine ==
    (Ran("LoadBackground") /\ bgFile.exists) =>
        LET parts == Tokens(FirstNonEmptyLine(bgFile.lines))
        IN  (Len(parts) >= 5 /\ \A i \in 1..5 : ParseFloat(parts[i]).ok) =>
                /\ ~FailedAt("LoadBackground")
                /\ QEq(bg_value, BgSubstitute(ParseFloat(parts[5]).val))


\* the pixels (row, column) of the image that lie in the region
RoiPixels(img, roi) ==
    { p \in (0..(Len(img) - 1)) \X (0..(Len(img[1]) - 1)) :
        /\ roi[1] <= p[2] /\ p[2] < roi[1] + roi[3]
        /\ roi[2] <= p[1] /\ p[1] < roi[2] + roi[4] }

RECURSIVE PixelSum(_, _)
PixelSum(img, P) ==
    IF P = {} THEN 0
    ELSE LET p == CHOOSE q \in P : TRUE
         IN  img[p[1] + 1][p[2] + 1] + PixelSum(img, P \ {p})

\* C11: _compute_roi_mean_gray returns the mean over exactly the pixels of the
\* intersection of the region with the image, and 0.0 when that intersection
\* is empty (region outside the image on any side, or of non-positive size).
C11_ClippedMean ==
    pout.done =>
        LET P == RoiPixels(pin.img, pin.roi)
        IN  IF P = {} THEN pout.mean = QZero
            ELSE QEq(pout.mean, Q(PixelSum(pin.img, P), Cardinality(P)))

\* a region that sticks out of the image and still covers some of its pixels
C11_Witness ==
    /\ pout.done
    /\ pin.roi[1] < 0 /\ pin.roi[2] + pin.roi[4] > Len(pin.img)
    /\ Cardinality(RoiPixels(pin.img, pin.roi)) >= 2
    /\ ~QIsZero(pout.mean)

\* a region of non-positive size, and one wholly outside, give 0.0
C11_EmptyWitness ==
    /\ pout.done /\ pin.roi[3] < 0 /\ pin.roi[1] = 1 /\ pout.mean = QZero


\* C12 as claimed: every region held in the loaded foreground catalog has
\* width > 0 and height > 0; a line with a zero or negative width or height
\* token never becomes a catalog region.
C12_PositiveSize ==
    \A i \in 1..Len(fg_list) : fg_list[i][3] > 0 /\ fg_list[i][4] > 0


\* C13: every result predict returns has as many wavelengths as intensities,
\* the output dimension O of the network; the wavelengths are evenly spaced and
\* non-decreasing, start at 400 and, for O >= 2, end at 1000; the axis
\* reconstruct_latest plots for that result is as long as the intensities.
C13_SpectrumShape ==
    (lastCall.op = "predict" /\ lastCall.exc = NoExc) =>
        LET w == result.wavelengths
            O == loader.model.output_dim
        IN  /\ Len(w) = O /\ Len(result.intensities) = O
            /\ O >= 1 => QEq(w[1], Q(WaveLo, 1))
            /\ O >= 2 => QEq(w[O], Q(WaveHi, 1))
            /\ \A i \in 1..(O - 1) : ~QSub(w[i + 1], w[i]).num.neg
            /\ \A i \in 2..(O - 1) :
                  QEq(QSub(w[i + 1], w[i]), QSub(w[i], w[i - 1]))
            /\ Len(PlotAxis(result)) = Len(result.intensities)

\* a spectrum of several points returned by a loader whose weights are loaded
C13_Witness ==
    /\ lastCall.op = "predict" /\ lastCall.exc = NoExc
    /\ loader.model.weights = "loaded"
    /\ Len(result.intensities) = OutDim /\ Len(result.wavelengths) = OutDim


\* how often each asset has been loaded from disk so far in the process; every
\* ModelLoader.load reads the mean and std files again (model_loader.py:39-47)
RoisLoads == loads.rois + LoadedIn(trace, "LoadForeground")
WeightsLoads == loads.weights + LoadedIn(trace, "LoadModel")
StatsLoads == loads.stats + LoadedIn(trace, "LoadStats") + WeightsLoads

\* C14 as claimed: within one process each asset (ROI catalog, normalization
\* statistics, model weights) is loaded from disk at most once; later calls of
\* reconstruct_latest reuse it.
C14_LoadedAtMostOnce ==
    RoisLoads <= 1 /\ StatsLoads <= 1 /\ WeightsLoads <= 1


ClaimedKind ==
    CASE FailedAt("ReadImage") -> "InputError"
      [] FailedAt("LoadBackground") \/ FailedAt("LoadForeground") -> "ConfigurationError"
      [] FailedAt("LoadStats") ->
            IF LoadNumpyArray(meanFile).err \/ LoadNumpyArray(stdFile).err
            THEN "ConfigurationError" ELSE "DimensionMismatch"
      [] FailedAt("LoadModel") -> "ModelLoadError"
      [] FailedAt("Predict") -> "RuntimeError"
      [] OTHER -> raised.kind

\* C16 as claimed: every error of reconstruct_latest reaches the caller with
\* the kind of its stage: ConfigurationError for a ROI or statistics file,
\* InputError for the image, DimensionMismatch for a shape disagreement,
\* ModelLoadError for the weights, RuntimeError for the inference; so a failed
\* model load and a shape disagreement never have the same kind.
C16_KindIdentifiesStage ==
    pc = "Failed" => raised.kind # NoExc /\ raised.kind = ClaimedKind

\* C17 as claimed: with the GPIO library available, start_control_buttons
\* binds the four buttons, in pin order, to reset, run, capture and reconstruct
\* and enters its wait loop; every operation the actions use is one the
\* system, camera and model modules provide.
C17_ButtonsBound ==
    (btn.called /\ btn.gpio) =>
        /\ btn.exc = NoExc
        /\ btn.bound = <<"reset", "run", "capture", "reconstruct">>
        /\ btn.waiting /\ mode = "buttons"
        /\ \A i \in 1..Len(ButtonImports) : ~ImportFails(ButtonImports[i])


\* C18: in a run, from the CLI or through _do_run, reconstruct_latest starts
\* only after capture_once has returned a path; when capture_once raises, the
\* run ends there: reconstruct_latest is not called, the error is what the run
\* reports, and the caller is back at its prompt or wait.
C18_RunCapturesFirst ==
    /\ [](pc # "Idle" => cmd.stage = "reconstruct")
    /\ []((cmd.name = "run" /\ cmd.stage = "reconstruct") =>
             capRet.exc = NoExc /\ capRet.path # NoPath)
    /\ []((last.name = "run" /\ last.cap.exc # NoExc) =>
             last.trace = <<>> /\ last.returned = NoPath)
    /\ [][(cmd.name = "run" /\ cmd.stage = "capture" /\ capRet'.exc # NoExc) =>
             /\ cmd' = NoCmd /\ pc' = "Idle"
             /\ last'.name = "run" /\ last'.cap = capRet' /\ last'.trace = <<>>
             /\ resultDir' = resultDir]_vars

\* a run whose capture failed: nothing reconstructed, the caller at its prompt
C18_Witness ==
    /\ last.name = "run" /\ last.cap.exc = "RuntimeError" /\ last.trace = <<>>
    /\ cmd = NoCmd /\ pc = "Idle" /\ ncmd < MaxCmds


\* C19 as claimed: whenever capture_once returns a path, that file exists in
\* capture/ and is the one _latest_capture selects; in a run the image
\* reconstruct_latest processes is the file capture_once just returned, never
\* an older capture.
C19_RunUsesNewCapture ==
    /\ (cmd.name = "run" /\ cmd.stage = "reconstruct" /\ pc = "Idle") =>
          /\ \E f \in captureDir : f.name = capRet.path
          /\ LatestCapture(captureDir) = capRet.path
    /\ (cmd.name = "run" /\ Completed("SelectCapture")) => img_path = capRet.path
    /\ (last.name = "capture" /\ last.cap.exc = NoExc) =>
          /\ \E f \in last.captureDir : f.name = last.cap.path
          /\ LatestCapture(last.captureDir) = last.cap.path


C21_EndsOnlyAtPrompt ==
    /\ mode \in {"cli", "interrupt", "eof"}
    /\ (last.name # "none" /\ cmd = NoCmd /\ mode \notin {"interrupt", "eof"}) =>
          mode = "cli"

\* C21: the command loop ends only on KeyboardInterrupt or EOF at the prompt,
\* or on a KeyboardInterrupt raised while a command runs, which no branch
\* catches.  For every sequence of lines, a command that ends otherwise, with
\* or without an exception, leaves the loop at its prompt; an empty line, help,
\* an unknown command or an unknown test target only prints and changes no
\* file; and every command that has started ends.
C21_LoopSurvivesFailures ==
    /\ [](mode \in {"cli", "interrupt", "eof", "aborted"})
    /\ [](mode = "aborted" => last.raised.kind = "KeyboardInterrupt")
    /\ [][(cmd # NoCmd /\ cmd' = NoCmd /\ last'.raised.kind # "KeyboardInterrupt") =>
             /\ mode' = "cli"
             /\ last'.name = cmd.name /\ last'.line = cmd.line]_vars
    /\ [][(ncmd' # ncmd /\ mode' = "cli" /\ cmd' = NoCmd) =>
             /\ last'.name \in PrintOnly /\ last'.name = Dispatch(last'.line)
             /\ last'.raised = NotRaised
             /\ captureDir' = captureDir /\ resultDir' = resultDir]_vars
    /\ [][(ncmd' # ncmd /\ mode' = "cli" /\ cmd' # NoCmd) =>
             /\ cmd'.name = Dispatch(cmd'.line) /\ cmd'.name \notin PrintOnly
             /\ captureDir' = captureDir /\ resultDir' = resultDir]_vars
    /\ (cmd # NoCmd) ~> (cmd = NoCmd)

\* a reconstruct that failed, its error printed, and the prompt ready for the
\* next line
C21_Witness ==
    /\ last.name = "reconstruct" /\ last.raised.kind = "RuntimeError"
    /\ mode = "cli" /\ cmd = NoCmd /\ pc = "Idle" /\ ncmd < MaxLines


=============================================================================
